---- MODULE Spec2Model ----
(***************************************************************************)
(* Model of the terminal-session MCP server of src/src/index.ts: the       *)
(* session registry (a JavaScript Map in insertion order), the Session     *)
(* objects captured by the pty listeners, the pty processes, and the       *)
(* CallToolRequestSchema handler with its try/catch dispatch boundary.     *)
(*                                                                         *)
(* A JavaScript string is a sequence of tokens (Seq(STRING)); s + t is     *)
(* s \o t, and "" and undefined, which the code only tests for truthiness, *)
(* are both <<>>.  Where the code depends on the type of an argument, the  *)
(* argument is a JavaScript value [type, val].                             *)
(***************************************************************************)
EXTENDS Integers, Sequences, FiniteSets, TLC

\* ---------------------------------------------------------------- bounds
\* what passes between the server and its environment in one run, counted
\* together: pty processes spawned, chunks handed to onData, writes to a pty
\* (password lines and commands) and tool invocations suspended at an await
MaxInputs == 3

\* ------------------------------------------------------- input alphabets
\* values of Math.random().toString(36).substring(7)
Ids == {"a", "b"}
\* the chunk a pty hands to onData as its n-th in the run: every chunk is told
\* apart from every other, so that a lost, repeated or reordered one shows
Chunk(n) == <<"data" \o ToString(n)>>
\* the shell argument of create_terminal (<<>>: absent)
ShellArgs == {<<>>}
\* the cwd argument of create_terminal (<<>>: absent)
CwdArgs == {<<>>}
\* the root_password argument of create_terminal (<<>>: absent)
PasswordArgs == {<<>>, <<"pw">>}
\* the names of TOOLS
ToolNames == {"create_terminal", "run_command", "read_output", "kill_terminal",
              "list_terminals", "run_root_command", "read_special_file",
              "get_system_logs"}

\* JavaScript values whose type the code depends on
Str(s) == [type |-> "string", val |-> s]
Undefined == [type |-> "undefined", val |-> <<>>]
Num(n) == [type |-> "number", val |-> <<n>>]
\* the command argument of run_command
CommandArgs == {Str(<<"ls">>), Str(<<"ls", "\n">>), Undefined}
\* the cwd argument of run_root_command
RootCwdArgs == {Undefined, Num(1)}
\* what read_special_file is asked to read: no path at all, a path that does
\* not exist, or a file of one of the four kinds told apart by extension
FileArgs == {"undefined", "missing", "pdf", "excel", "image", "text"}

VARIABLES
    sessions,   \* the registry: a Map, as its entries in insertion order
    heap,       \* the Session objects built by create_terminal
    ptys,       \* the pty processes spawned by create_terminal
    pending,    \* tool invocations suspended at an await, oldest first
    last,       \* the outcome of the latest step (a tool result or an event)
    emitted,    \* history: per pty, the text its listeners were handed
    drained,    \* history: per Session object, the read_output results, joined
    ndata,      \* history: onData events so far
    nwrites     \* history: writes to a pty (password lines, commands) so far

vars == <<sessions, heap, ptys, pending, last, emitted, drained, ndata, nwrites>>

\* ------------------------------------------------------------- the Map
\* Map.prototype.has
MapHas(m, k) == \E i \in 1..Len(m) : m[i].key = k

\* Map.prototype.get, for a key the map has
MapGet(m, k) == LET i == CHOOSE j \in 1..Len(m) : m[j].key = k IN m[i].value

\* Map.prototype.set: a key the map has keeps its place
MapSet(m, k, v) ==
    IF MapHas(m, k)
    THEN [i \in 1..Len(m) |-> IF m[i].key = k THEN [key |-> k, value |-> v] ELSE m[i]]
    ELSE Append(m, [key |-> k, value |-> v])

\* Map.prototype.delete
MapDelete(m, k) == SelectSeq(m, LAMBDA e : e.key # k)

\* Array.from(map.keys())
MapKeys(m) == [i \in 1..Len(m) |-> m[i].key]

\* ------------------------------------------------------------- strings
\* String.prototype.endsWith("\n")
EndsWithNewline(s) == Len(s) > 0 /\ s[Len(s)] = "\n"

\* the text appended by the onExit listener
ExitMarker == <<"\n[Process exited]\n">>

\* os.platform() === "win32" ? "powershell.exe" : (process.env.SHELL || "bash")
DefaultShell == <<"bash">>

\* os.homedir()
HomeDir == <<"~">>

\* ------------------------------------------------------------- results
\* a result the handler returns
Result(name, id, text, isError) ==
    [kind |-> "result", name |-> name, id |-> id, text |-> text,
     isError |-> isError, escaped |-> FALSE]

\* the catch block without `isError: true`
CaughtUnflagged(name, id, message) == Result(name, id, <<"Error: ">> \o message, FALSE)

\* the catch block of the handler
Caught(name, id, message) == Result(name, id, <<"Error: ">> \o message, TRUE)

\* a rejection of the promise the handler returned
Rejected(name, id, message) ==
    [kind |-> "result", name |-> name, id |-> id, text |-> message,
     isError |-> FALSE, escaped |-> TRUE]

\* a listener callback ran
Event(name) ==
    [kind |-> "event", name |-> name, id |-> <<>>, text |-> <<>>,
     isError |-> FALSE, escaped |-> FALSE]

\* new Error(`Session ${sessionId} not found.`).message
NotFoundMessage(sessionId) == <<"Session ", sessionId, " not found.">>

Init ==
    /\ sessions = <<>>
    /\ heap = <<>>
    /\ ptys = <<>>
    /\ pending = <<>>
    /\ last = [kind |-> "init", name |-> "", id |-> <<>>, text |-> <<>>,
               isError |-> FALSE, escaped |-> FALSE]
    /\ emitted = <<>>
    /\ drained = <<>>
    /\ ndata = 0
    /\ nwrites = 0

\* what has passed between the server and its environment so far
Inputs == Len(ptys) + ndata + nwrites + Len(pending)

\* ------------------------------------------------------ create_terminal
\* the root branch spawning without the listeners being attached to it
SpawnRootUnheard(shell, cwd, rootPassword, listener) ==
    [file |-> IF rootPassword # <<>> THEN <<"sudo">> ELSE shell,
     args |-> IF rootPassword # <<>> THEN <<"-S", "-p", "", shell>> ELSE <<>>,
     cwd |-> cwd,
     input |-> IF rootPassword # <<>> THEN <<rootPassword \o <<"\n">>>> ELSE <<>>,
     alive |-> TRUE,
     killed |-> FALSE,
     listener |-> IF rootPassword # <<>> THEN 0 ELSE listener]

\* the root branch writing the password without its line terminator
SpawnNoNewline(shell, cwd, rootPassword, listener) ==
    [file |-> IF rootPassword # <<>> THEN <<"sudo">> ELSE shell,
     args |-> IF rootPassword # <<>> THEN <<"-S", "-p", "", shell>> ELSE <<>>,
     cwd |-> cwd,
     input |-> IF rootPassword # <<>> THEN <<rootPassword>> ELSE <<>>,
     alive |-> TRUE,
     killed |-> FALSE,
     listener |-> listener]

\* pty.spawn with the launch arguments of the two branches
Spawn(shell, cwd, rootPassword, listener) ==
    [file |-> IF rootPassword # <<>> THEN <<"sudo">> ELSE shell,
     args |-> IF rootPassword # <<>> THEN <<"-S", "-p", "", shell>> ELSE <<>>,
     cwd |-> cwd,
     input |-> IF rootPassword # <<>> THEN <<rootPassword \o <<"\n">>>> ELSE <<>>,
     alive |-> TRUE,
     killed |-> FALSE,
     listener |-> listener]

\* JSON.stringify({ session_id, shell, cwd, mode })
CreateText(sessionId, shell, cwd, rootPassword) ==
    <<"session_id", sessionId, "shell">> \o shell \o <<"cwd">> \o cwd
        \o <<"mode", IF rootPassword # <<>> THEN "root" ELSE "user">>

\* create_terminal registering the session before it spawns the process
CreateTerminalRegisterFirst(shellArg, cwdArg, rootPassword, sessionId, spawnOk) ==
    LET cwd == IF cwdArg # <<>> THEN cwdArg ELSE HomeDir
        shell == IF shellArg # <<>> THEN shellArg ELSE DefaultShell
        s == Len(heap) + 1
    IN  /\ Inputs + (IF rootPassword # <<>> THEN 2 ELSE 1) <= MaxInputs
        /\ ptys' = Append(ptys, [Spawn(shell, cwd, rootPassword, s)
                                    EXCEPT !.alive = spawnOk])
        /\ heap' = Append(heap, [id |-> sessionId, process |-> Len(ptys) + 1,
                                 outputBuffer |-> <<>>])
        /\ sessions' = MapSet(sessions, sessionId, s)
        /\ emitted' = Append(emitted, <<>>)
        /\ drained' = Append(drained, <<>>)
        /\ last' = IF spawnOk
                   THEN Result("create_terminal", <<sessionId>>,
                               CreateText(sessionId, shell, cwd, rootPassword), FALSE)
                   ELSE Caught("create_terminal", <<>>, <<"spawn failed">>)
        /\ nwrites' = nwrites + (IF rootPassword # <<>> THEN 1 ELSE 0)
        /\ UNCHANGED <<pending, ndata>>

\* create_terminal; sessionId is what Math.random() yields, spawnOk whether
\* pty.spawn returns or throws
CreateTerminal(shellArg, cwdArg, rootPassword, sessionId, spawnOk) ==
    LET cwd == IF cwdArg # <<>> THEN cwdArg ELSE HomeDir
        shell == IF shellArg # <<>> THEN shellArg ELSE DefaultShell
        s == Len(heap) + 1
    IN  IF ~spawnOk
        THEN /\ last' = Caught("create_terminal", <<>>, <<"spawn failed">>)
             /\ UNCHANGED <<sessions, heap, ptys, pending, emitted, drained,
                            ndata, nwrites>>
        ELSE /\ Inputs + (IF rootPassword # <<>> THEN 2 ELSE 1) <= MaxInputs
             /\ ptys' = Append(ptys, Spawn(shell, cwd, rootPassword, s))
             /\ heap' = Append(heap, [id |-> sessionId, process |-> Len(ptys) + 1,
                                      outputBuffer |-> <<>>])
             /\ sessions' = MapSet(sessions, sessionId, s)
             /\ emitted' = Append(emitted, <<>>)
             /\ drained' = Append(drained, <<>>)
             /\ last' = Result("create_terminal", <<sessionId>>,
                               CreateText(sessionId, shell, cwd, rootPassword), FALSE)
             /\ nwrites' = nwrites + (IF rootPassword # <<>> THEN 1 ELSE 0)
             /\ UNCHANGED <<pending, ndata>>

\* ------------------------------------------------------------ listeners
\* the onData listener assigning where the code appends
OnDataOverwrite(p) ==
    /\ p \in 1..Len(ptys)
    /\ ptys[p].alive
    /\ Inputs < MaxInputs
    /\ LET s == ptys[p].listener
           data == Chunk(ndata + 1)
       IN  /\ heap' = [heap EXCEPT ![s].outputBuffer = data]
           /\ emitted' = [emitted EXCEPT ![p] = @ \o data]
    /\ ndata' = ndata + 1
    /\ last' = Event("onData")
    /\ UNCHANGED <<sessions, ptys, pending, drained, nwrites>>

\* the onData listener appending to one buffer shared by all sessions
OnDataShared(p) ==
    /\ p \in 1..Len(ptys)
    /\ ptys[p].alive
    /\ Inputs < MaxInputs
    /\ heap' = [s \in 1..Len(heap) |->
                   [heap[s] EXCEPT !.outputBuffer = @ \o Chunk(ndata + 1)]]
    /\ emitted' = [emitted EXCEPT ![p] = @ \o Chunk(ndata + 1)]
    /\ ndata' = ndata + 1
    /\ last' = Event("onData")
    /\ UNCHANGED <<sessions, ptys, pending, drained, nwrites>>

\* the onData listener finding its buffer through the registry, by the id of
\* its session, when the data arrives
OnDataById(p) ==
    /\ p \in 1..Len(ptys)
    /\ ptys[p].alive
    /\ Inputs < MaxInputs
    /\ LET id == heap[ptys[p].listener].id
           data == Chunk(ndata + 1)
       IN  /\ heap' = IF MapHas(sessions, id)
                      THEN [heap EXCEPT ![MapGet(sessions, id)].outputBuffer = @ \o data]
                      ELSE heap
           /\ emitted' = [emitted EXCEPT ![p] = @ \o data]
    /\ ndata' = ndata + 1
    /\ last' = Event("onData")
    /\ UNCHANGED <<sessions, ptys, pending, drained, nwrites>>

\* ptyProcess.onData((data) => { session.outputBuffer += data; })
OnData(p) ==
    /\ p \in 1..Len(ptys)
    /\ ptys[p].alive
    /\ Inputs < MaxInputs
    /\ LET s == ptys[p].listener
           data == Chunk(ndata + 1)
       IN  /\ heap' = [heap EXCEPT ![s].outputBuffer = @ \o data]
           /\ emitted' = [emitted EXCEPT ![p] = @ \o data]
    /\ ndata' = ndata + 1
    /\ last' = Event("onData")
    /\ UNCHANGED <<sessions, ptys, pending, drained, nwrites>>

\* the onExit listener also taking its session out of the registry
OnExitRemoves(p) ==
    /\ p \in 1..Len(ptys)
    /\ ptys[p].alive
    /\ ptys' = [ptys EXCEPT ![p].alive = FALSE]
    /\ LET s == ptys[p].listener IN
           /\ heap' = [heap EXCEPT ![s].outputBuffer = @ \o ExitMarker]
           /\ sessions' = MapDelete(sessions, heap[s].id)
    /\ emitted' = [emitted EXCEPT ![p] = @ \o ExitMarker]
    /\ last' = Event("onExit")
    /\ UNCHANGED <<pending, drained, ndata, nwrites>>

\* ptyProcess.onExit(() => { session.outputBuffer += "\n[Process exited]\n"; })
OnExit(p) ==
    /\ p \in 1..Len(ptys)
    /\ ptys[p].alive
    /\ ptys' = [ptys EXCEPT ![p].alive = FALSE]
    /\ LET s == ptys[p].listener IN
           heap' = [heap EXCEPT ![s].outputBuffer = @ \o ExitMarker]
    /\ emitted' = [emitted EXCEPT ![p] = @ \o ExitMarker]
    /\ last' = Event("onExit")
    /\ UNCHANGED <<sessions, pending, drained, ndata, nwrites>>

\* ---------------------------------------------------------- run_command
\* run_command appending the line terminator without looking at the command
RunCommandAlwaysNewline(sessionId, command) ==
    IF ~MapHas(sessions, sessionId)
    THEN /\ last' = Caught("run_command", <<sessionId>>, NotFoundMessage(sessionId))
         /\ UNCHANGED <<sessions, heap, ptys, pending, emitted, drained,
                        ndata, nwrites>>
    ELSE IF command.type # "string"
    THEN /\ last' = Caught("run_command", <<sessionId>>, <<"TypeError">>)
         /\ UNCHANGED <<sessions, heap, ptys, pending, emitted, drained,
                        ndata, nwrites>>
    ELSE /\ Inputs < MaxInputs
         /\ LET session == heap[MapGet(sessions, sessionId)]
                text == command.val \o <<"\n">>
            IN  ptys' = [ptys EXCEPT ![session.process].input = Append(@, text)]
         /\ nwrites' = nwrites + 1
         /\ last' = Result("run_command", <<sessionId>>,
                           <<"Command sent to session ", sessionId, ".">>, FALSE)
         /\ UNCHANGED <<sessions, heap, pending, emitted, drained, ndata>>

RunCommand(sessionId, command) ==
    IF ~MapHas(sessions, sessionId)
    THEN /\ last' = Caught("run_command", <<sessionId>>, NotFoundMessage(sessionId))
         /\ UNCHANGED <<sessions, heap, ptys, pending, emitted, drained,
                        ndata, nwrites>>
    ELSE IF command.type # "string"
    THEN \* command.endsWith throws a TypeError inside the try block
         /\ last' = Caught("run_command", <<sessionId>>, <<"TypeError">>)
         /\ UNCHANGED <<sessions, heap, ptys, pending, emitted, drained,
                        ndata, nwrites>>
    ELSE /\ Inputs < MaxInputs
         /\ LET session == heap[MapGet(sessions, sessionId)]
                text == IF EndsWithNewline(command.val) THEN command.val
                        ELSE command.val \o <<"\n">>
            IN  ptys' = [ptys EXCEPT ![session.process].input = Append(@, text)]
         /\ nwrites' = nwrites + 1
         /\ last' = Result("run_command", <<sessionId>>,
                           <<"Command sent to session ", sessionId, ".">>, FALSE)
         /\ UNCHANGED <<sessions, heap, pending, emitted, drained, ndata>>

\* ---------------------------------------------------------- read_output
\* read_output without `session.outputBuffer = ""`
ReadOutputKeep(sessionId) ==
    IF ~MapHas(sessions, sessionId)
    THEN /\ last' = Caught("read_output", <<sessionId>>, NotFoundMessage(sessionId))
         /\ UNCHANGED <<sessions, heap, ptys, pending, emitted, drained,
                        ndata, nwrites>>
    ELSE LET s == MapGet(sessions, sessionId)
             output == heap[s].outputBuffer
         IN  /\ drained' = [drained EXCEPT ![s] = @ \o output]
             /\ last' = Result("read_output", <<sessionId>>, output, FALSE)
             /\ UNCHANGED <<sessions, heap, ptys, pending, emitted, ndata, nwrites>>

ReadOutput(sessionId) ==
    IF ~MapHas(sessions, sessionId)
    THEN /\ last' = Caught("read_output", <<sessionId>>, NotFoundMessage(sessionId))
         /\ UNCHANGED <<sessions, heap, ptys, pending, emitted, drained,
                        ndata, nwrites>>
    ELSE LET s == MapGet(sessions, sessionId)
             output == heap[s].outputBuffer
         IN  /\ heap' = [heap EXCEPT ![s].outputBuffer = <<>>]
             /\ drained' = [drained EXCEPT ![s] = @ \o output]
             /\ last' = Result("read_output", <<sessionId>>, output, FALSE)
             /\ UNCHANGED <<sessions, ptys, pending, emitted, ndata, nwrites>>

\* -------------------------------------------------------- kill_terminal
\* kill_terminal without `sessions.delete(sessionId)`
KillTerminalKeep(sessionId) ==
    IF ~MapHas(sessions, sessionId)
    THEN /\ last' = Caught("kill_terminal", <<sessionId>>, NotFoundMessage(sessionId))
         /\ UNCHANGED <<sessions, heap, ptys, pending, emitted, drained,
                        ndata, nwrites>>
    ELSE LET session == heap[MapGet(sessions, sessionId)] IN
         /\ ptys' = [ptys EXCEPT ![session.process].killed = TRUE]
         /\ last' = Result("kill_terminal", <<sessionId>>,
                           <<"Session ", sessionId, " killed.">>, FALSE)
         /\ UNCHANGED <<sessions, heap, pending, emitted, drained, ndata, nwrites>>

\* kill_terminal whose process.kill() throws for a process that has exited
KillTerminalLiveOnly(sessionId) ==
    IF ~MapHas(sessions, sessionId)
    THEN /\ last' = Caught("kill_terminal", <<sessionId>>, NotFoundMessage(sessionId))
         /\ UNCHANGED <<sessions, heap, ptys, pending, emitted, drained,
                        ndata, nwrites>>
    ELSE LET session == heap[MapGet(sessions, sessionId)] IN
         IF ~ptys[session.process].alive
         THEN /\ last' = Caught("kill_terminal", <<sessionId>>, <<"kill ESRCH">>)
              /\ UNCHANGED <<sessions, heap, ptys, pending, emitted, drained,
                             ndata, nwrites>>
         ELSE /\ ptys' = [ptys EXCEPT ![session.process].killed = TRUE]
              /\ sessions' = MapDelete(sessions, sessionId)
              /\ last' = Result("kill_terminal", <<sessionId>>,
                                <<"Session ", sessionId, " killed.">>, FALSE)
              /\ UNCHANGED <<heap, pending, emitted, drained, ndata, nwrites>>

KillTerminal(sessionId) ==
    IF ~MapHas(sessions, sessionId)
    THEN /\ last' = Caught("kill_terminal", <<sessionId>>, NotFoundMessage(sessionId))
         /\ UNCHANGED <<sessions, heap, ptys, pending, emitted, drained,
                        ndata, nwrites>>
    ELSE LET session == heap[MapGet(sessions, sessionId)] IN
         /\ ptys' = [ptys EXCEPT ![session.process].killed = TRUE]
         /\ sessions' = MapDelete(sessions, sessionId)
         /\ last' = Result("kill_terminal", <<sessionId>>,
                           <<"Session ", sessionId, " killed.">>, FALSE)
         /\ UNCHANGED <<heap, pending, emitted, drained, ndata, nwrites>>

\* ------------------------------------------------------- list_terminals
\* list_terminals served only once no invocation is suspended, as under a
\* handler that blocks on execSync or serves one request at a time
ListTerminalsSerialized ==
    /\ pending = <<>>
    /\ last' = Result("list_terminals", <<>>, MapKeys(sessions), FALSE)
    /\ UNCHANGED <<sessions, heap, ptys, pending, emitted, drained, ndata, nwrites>>

ListTerminals ==
    /\ last' = Result("list_terminals", <<>>, MapKeys(sessions), FALSE)
    /\ UNCHANGED <<sessions, heap, ptys, pending, emitted, drained, ndata, nwrites>>

\* ----------------------------------------------------- suspended tools
\* the sequence s without its i-th element
Remove(s, i) == [j \in 1..(Len(s) - 1) |-> IF j < i THEN s[j] ELSE s[j + 1]]

\* the frame of a step that touches no session
SessionsUnchanged == UNCHANGED <<sessions, heap, ptys, emitted, drained, ndata, nwrites>>

\* run_root_command and get_system_logs, up to `await import("child_process")`
StartImport(name, cwdArg) ==
    /\ Inputs < MaxInputs
    /\ pending' = Append(pending, [name |-> name, stage |-> "import", cwd |-> cwdArg])
    /\ last' = Event("suspended")
    /\ SessionsUnchanged

\* childProcess.exec(command, { cwd }, callback) throws at once, before it
\* launches anything, when options.cwd is not a string
ExecThrows(cwd) == cwd.type # "string"

\* run_root_command from the import to the promise it returns: the executor
\* of `new Promise` calls exec, and the promise is returned, not awaited
RunRootCommandExec(i) ==
    /\ i \in 1..Len(pending)
    /\ pending[i].name = "run_root_command"
    /\ pending[i].stage = "import"
    /\ LET cwd == IF pending[i].cwd.type # "undefined" THEN pending[i].cwd
                  ELSE Str(HomeDir)
       IN  IF ExecThrows(cwd)
           THEN /\ pending' = Remove(pending, i)
                /\ last' = Rejected("run_root_command", <<>>, <<"TypeError">>)
           ELSE /\ pending' = [pending EXCEPT ![i].stage = "exec"]
                /\ last' = Event("resumed")
    /\ SessionsUnchanged

\* the exec callback of run_root_command; error is exec's first argument
RunRootCommandDone(i, error) ==
    /\ i \in 1..Len(pending)
    /\ pending[i].name = "run_root_command"
    /\ pending[i].stage = "exec"
    /\ pending' = Remove(pending, i)
    /\ last' = IF error
               THEN Result("run_root_command", <<>>,
                           <<"Error: ", "message", "\nStderr: ", "stderr",
                             "\nStdout: ", "stdout">>, TRUE)
               ELSE Result("run_root_command", <<>>, <<"stdout">>, FALSE)
    /\ SessionsUnchanged

\* get_system_logs from the import to the promise it returns; exec is given
\* a command string and no options
GetSystemLogsExec(i) ==
    /\ i \in 1..Len(pending)
    /\ pending[i].name = "get_system_logs"
    /\ pending[i].stage = "import"
    /\ pending' = [pending EXCEPT ![i].stage = "exec"]
    /\ last' = Event("resumed")
    /\ SessionsUnchanged

\* the exec callback of get_system_logs
GetSystemLogsDone(i, error) ==
    /\ i \in 1..Len(pending)
    /\ pending[i].name = "get_system_logs"
    /\ pending[i].stage = "exec"
    /\ pending' = Remove(pending, i)
    /\ last' = IF error
               THEN Result("get_system_logs", <<>>,
                           <<"Error reading logs: ", "message", "\n", "stderr">>, TRUE)
               ELSE Result("get_system_logs", <<>>, <<"stdout">>, FALSE)
    /\ SessionsUnchanged

\* read_special_file up to its first await or its return; ok is whether the
\* synchronous reader (XLSX.readFile, fs.readFileSync) returns or throws
ReadSpecialFile(file, ok) ==
    IF file = "undefined"
    THEN \* path.extname(undefined) throws a TypeError inside the try block
         /\ last' = Caught("read_special_file", <<>>, <<"TypeError">>)
         /\ UNCHANGED pending
         /\ SessionsUnchanged
    ELSE IF file = "missing"
    THEN /\ last' = Caught("read_special_file", <<>>, <<"File not found: ", file>>)
         /\ UNCHANGED pending
         /\ SessionsUnchanged
    ELSE IF file \in {"pdf", "image"}
    THEN /\ Inputs < MaxInputs
         /\ pending' = Append(pending, [name |-> "read_special_file",
                                        stage |-> "parse", cwd |-> Undefined])
              /\ last' = Event("suspended")
         /\ SessionsUnchanged
    ELSE /\ last' = IF ok THEN Result("read_special_file", <<>>, <<"content">>, FALSE)
                    ELSE Caught("read_special_file", <<>>, <<"read failed">>)
         /\ UNCHANGED pending
         /\ SessionsUnchanged

\* read_special_file after `await parsePdf(...)` or `await parseImage(...)`:
\* the awaited promise fulfils, or rejects into the catch block
ReadSpecialFileDone(i, ok) ==
    /\ i \in 1..Len(pending)
    /\ pending[i].name = "read_special_file"
    /\ pending' = Remove(pending, i)
    /\ last' = IF ok THEN Result("read_special_file", <<>>, <<"content">>, FALSE)
               ELSE Caught("read_special_file", <<>>, <<"parse failed">>)
    /\ SessionsUnchanged

\* a request naming no tool: throw new Error(`Tool ${name} not found.`)
UnknownTool(name) ==
    /\ name \notin ToolNames
    /\ last' = Caught(name, <<>>, <<"Tool ", name, " not found.">>)
    /\ UNCHANGED pending
    /\ SessionsUnchanged

Next ==
    \/ \E sh \in ShellArgs, cwd \in CwdArgs, pw \in PasswordArgs, id \in Ids,
          ok \in BOOLEAN : CreateTerminal(sh, cwd, pw, id, ok)
    \/ \E p \in 1..Len(ptys) : OnData(p)
    \/ \E p \in 1..Len(ptys) : OnExit(p)
    \/ \E id \in Ids, c \in CommandArgs : RunCommand(id, c)
    \/ \E id \in Ids : ReadOutput(id)
    \/ \E id \in Ids : KillTerminal(id)
    \/ ListTerminals
    \/ \E cwd \in RootCwdArgs : StartImport("run_root_command", cwd)
    \/ StartImport("get_system_logs", Undefined)
    \/ \E i \in 1..Len(pending) : RunRootCommandExec(i)
    \/ \E i \in 1..Len(pending), error \in BOOLEAN : RunRootCommandDone(i, error)
    \/ \E i \in 1..Len(pending) : GetSystemLogsExec(i)
    \/ \E i \in 1..Len(pending), error \in BOOLEAN : GetSystemLogsDone(i, error)
    \/ \E file \in FileArgs, ok \in BOOLEAN : ReadSpecialFile(file, ok)
    \/ \E i \in 1..Len(pending), ok \in BOOLEAN : ReadSpecialFileDone(i, ok)
    \/ UnknownTool("no_such_tool")

Spec == Init /\ [][Next]_vars

\* ------------------------------------------------------------ vocabulary
\* the Session objects the registry holds
Registered == {sessions[i].value : i \in 1..Len(sessions)}

\* the ids on which a kill_terminal has succeeded
KilledIds == {heap[s].id : s \in {r \in 1..Len(heap) : ptys[heap[r].process].killed}}

\* s ends with the text t
EndsWith(s, t) == Len(s) >= Len(t) /\ SubSeq(s, Len(s) - Len(t) + 1, Len(s)) = t

\* the token x occurs in the text s
Names(s, x) == \E i \in 1..Len(s) : s[i] = x

\* what the listeners of Session object s were handed since the latest
\* read_output on s, or since its creation
Unread(s) ==
    SubSeq(emitted[heap[s].process], Len(drained[s]) + 1, Len(emitted[heap[s].process]))

\* this step is a tool invocation of one of `names` on session id `id` that returned
Returned(names, id) ==
    /\ last'.kind = "result"
    /\ last'.name \in names
    /\ last'.id = <<id>>

\* ---------------------------------------------------------------- claims

\* C1: a successful create_terminal returns an id that was not a key of the
\* registry when it was called, and a list_terminals right after contains it.
C1_CreateReturnsFreshId ==
    [][\A id \in Ids :
          (Returned({"create_terminal"}, id) /\ ~last'.isError)
              => /\ ~MapHas(sessions, id)
                 /\ Names(MapKeys(sessions'), id)]_vars

\* C2: for every registered session, its read_output results joined in call
\* order, followed by its buffer, are the chunks its process emitted (and the
\* exit marker once it exited), in emission order.
C2_DrainLosesNothing ==
    \A s \in Registered :
        drained[s] \o heap[s].outputBuffer = emitted[heap[s].process]

\* C2 witness: a registered session has been read after its first chunk, holds
\* a later chunk and the exit marker in its buffer, in that order.
C2_Witness ==
    \E s \in Registered :
        /\ Len(drained[s]) = 1
        /\ Len(heap[s].outputBuffer) = 2
        /\ EndsWith(heap[s].outputBuffer, ExitMarker)

\* C3: read_output on a registered session returns exactly the text appended
\* to its buffer since the previous read_output on it (or since creation) and
\* leaves the buffer empty; on a session with nothing appended, and right
\* after another read_output of it, that text is empty.
C3_ReadReturnsUnreadOnce ==
    [][\A id \in Ids :
          (Returned({"read_output"}, id) /\ ~last'.isError)
              => /\ MapHas(sessions, id)
                 /\ LET s == MapGet(sessions, id) IN
                        /\ last'.text = Unread(s)
                        /\ heap'[s].outputBuffer = <<>>
                        /\ emitted[heap[s].process] = <<>> => last'.text = <<>>
                        /\ (last.name = "read_output" /\ last.id = <<id>>
                              /\ ~last.isError)
                               => last'.text = <<>>]_vars

\* C3 witness: a read_output returned no text from a session whose earlier
\* read_output had returned some.
C3_Witness ==
    \E id \in Ids :
        /\ last = Result("read_output", <<id>>, <<>>, FALSE)
        /\ MapHas(sessions, id)
        /\ drained[MapGet(sessions, id)] # <<>>

\* C4: once kill_terminal has succeeded on an id, the id is in no later
\* list_terminals result, and run_command, read_output and kill_terminal on it
\* fail with a not-found error: the id is never a key of the registry again.
C4_KilledIdStaysAbsent == \A id \in KilledIds : ~MapHas(sessions, id)

\* C5: run_command, read_output and kill_terminal on an id that is not in the
\* registry return an error-flagged result naming the id, raise nothing past
\* the handler, and leave the registry and every buffer unchanged.
C5_UnknownIdFails ==
    [][\A id \in Ids :
          (Returned({"run_command", "read_output", "kill_terminal"}, id)
             /\ ~MapHas(sessions, id))
              => /\ last'.isError
                 /\ ~last'.escaped
                 /\ Names(last'.text, id)
                 /\ sessions' = sessions
                 /\ heap' = heap
                 /\ ptys' = ptys]_vars

\* C5 witness: a kill_terminal on an unknown id failed while another session,
\* with text in its buffer, was registered.
C5_Witness ==
    \E id \in Ids :
        /\ last = Caught("kill_terminal", <<id>>, NotFoundMessage(id))
        /\ \E s \in Registered : heap[s].outputBuffer # <<>>

\* the sessions registered together have distinct ids and distinct processes
DistinctSessions ==
    \A i, j \in 1..Len(sessions) :
        /\ heap[sessions[i].value].id = sessions[i].key
        /\ i # j => /\ sessions[i].key # sessions[j].key
                    /\ sessions[i].value # sessions[j].value
                    /\ heap[sessions[i].value].process # heap[sessions[j].value].process

\* a step on one session leaves the buffer of every other registered one alone
OtherBuffersKept ==
    \A t \in Registered :
        /\ (\E id \in Ids \ {heap[t].id} :
               Returned({"run_command", "read_output", "kill_terminal"}, id))
               => heap'[t].outputBuffer = heap[t].outputBuffer
        /\ (last'.kind = "event"
              /\ emitted'[heap[t].process] = emitted[heap[t].process])
               => heap'[t].outputBuffer = heap[t].outputBuffer

\* C6: two sessions registered at the same time have distinct ids, and
\* run_command, read_output, kill_terminal and output or exit events on one
\* leave the other's buffer unchanged.
C6_SessionsIndependent == []DistinctSessions /\ [][OtherBuffersKept]_vars

\* C6 witness: of two registered sessions one has received output and the
\* other has an empty buffer.
C6_Witness ==
    \E s, t \in Registered :
        /\ s # t
        /\ heap[s].outputBuffer # <<>>
        /\ heap[t].outputBuffer = <<>>
        /\ last = Event("onData")

\* C7 as stated: every registered session owns exactly one live process.
C7_RegisteredProcessLive ==
    /\ \A s \in Registered : ptys[heap[s].process].alive
    /\ \A s, t \in Registered : s # t => heap[s].process # heap[t].process

\* C7 amended: every registered session owns exactly one process, owned by no
\* other registered session and never one kill_terminal has signalled; the
\* process is live or has exited on its own.
C7_RegisteredProcessOwned ==
    /\ \A s \in Registered :
           /\ heap[s].process \in 1..Len(ptys)
           /\ ~ptys[heap[s].process].killed
           /\ ptys[heap[s].process].listener = s
    /\ \A s, t \in Registered : s # t => heap[s].process # heap[t].process

\* C7 witness: two sessions are registered and the process of one has exited.
C7_Witness ==
    \E s, t \in Registered :
        /\ s # t
        /\ ~ptys[heap[s].process].alive
        /\ ptys[heap[t].process].alive

\* C8: a registered session whose process has exited on its own stays in the
\* registry until kill_terminal is called on it, and its buffer holds the exit
\* marker until a read_output returns it.
C8_ExitedSessionStays ==
    [][\A s \in Registered :
          (~ptys[heap[s].process].alive
             /\ ~Returned({"kill_terminal"}, heap[s].id))
              => /\ s \in Registered'
                 /\ EndsWith(Unread(s), ExitMarker)
                        => \/ EndsWith(heap'[s].outputBuffer, ExitMarker)
                           \/ /\ Returned({"read_output"}, heap[s].id)
                              /\ EndsWith(last'.text, ExitMarker)]_vars

\* the lines a root password is written as
PasswordLines == {pw \o <<"\n">> : pw \in PasswordArgs \ {<<>>}}

\* the strings run_command writes
CommandLines == {<<"ls", "\n">>}

\* C9: the first write to the input of a process spawned with a root password
\* is the password followed by a line terminator, ahead of every run_command
\* write; a process spawned without one receives run_command writes only.
C9_PasswordWrittenFirst ==
    \A p \in 1..Len(ptys) :
        /\ ptys[p].file = <<"sudo">>
               => /\ Len(ptys[p].input) >= 1
                  /\ ptys[p].input[1] \in PasswordLines
                  /\ \A i \in 2..Len(ptys[p].input) : ptys[p].input[i] \in CommandLines
        /\ ptys[p].file # <<"sudo">>
               => \A i \in 1..Len(ptys[p].input) : ptys[p].input[i] \in CommandLines

\* C9 witness: a process spawned with a root password has received the
\* password and then a command.
C9_Witness ==
    \E p \in 1..Len(ptys) :
        /\ ptys[p].file = <<"sudo">>
        /\ Len(ptys[p].input) = 2

\* C10: every tool invocation completes with a text result, error-flagged on
\* failure; none ends as an exception or a rejected promise past the handler.
C10_NothingEscapes == last.kind = "result" => ~last.escaped


\* C11: a create_terminal whose spawn fails returns an error-flagged result,
\* adds no session, and leaves the registry, the processes and every buffer
\* as they were.
C11_SpawnFailureChangesNothing ==
    [][(last'.kind = "result" /\ last'.name = "create_terminal" /\ last'.isError)
          => /\ ~last'.escaped
             /\ sessions' = sessions
             /\ heap' = heap
             /\ ptys' = ptys]_vars

\* C11 witness: a create_terminal failed while a session with text in its
\* buffer was registered.
C11_Witness ==
    /\ last.name = "create_terminal"
    /\ last.isError
    /\ \E s \in Registered : heap[s].outputBuffer # <<>>

\* the ids create_terminal has returned
IssuedIds == {heap[s].id : s \in 1..Len(heap)}

\* C12: an id create_terminal has returned is never returned by a later
\* create_terminal, whether or not its session is still registered.
C12_IdNeverReissued ==
    [][\A id \in Ids :
          (Returned({"create_terminal"}, id) /\ ~last'.isError)
              => id \notin IssuedIds]_vars

\* C13: kill_terminal on a registered id removes the session and returns the
\* acknowledgement, whether its process is running, goes on running after the
\* signal, or has already exited.
C13_KillAlwaysRemoves ==
    [][\A id \in Ids :
          (Returned({"kill_terminal"}, id) /\ MapHas(sessions, id))
              => /\ last' = Result("kill_terminal", <<id>>,
                                   <<"Session ", id, " killed.">>, FALSE)
                 /\ ~MapHas(sessions', id)
                 /\ ptys'[heap[MapGet(sessions, id)].process].killed
                 /\ ptys'[heap[MapGet(sessions, id)].process].alive
                        = ptys[heap[MapGet(sessions, id)].process].alive]_vars

\* C13 witness: kill_terminal has just removed the only session there ever
\* was, and its process had exited before.
C13_Witness ==
    /\ last.name = "kill_terminal"
    /\ ~last.isError
    /\ Len(ptys) = 1
    /\ ptys[1].killed
    /\ ~ptys[1].alive

\* the elements of the sequence s
Range(s) == {s[i] : i \in 1..Len(s)}

\* the ids create_terminal has returned and no kill_terminal has removed
\* since: those whose latest Session object was not killed
LiveIds ==
    {id \in IssuedIds :
        LET latest == CHOOSE s \in 1..Len(heap) :
                          /\ heap[s].id = id
                          /\ \A r \in 1..Len(heap) : heap[r].id = id => r <= s
        IN  ~ptys[heap[latest].process].killed}

\* list_terminals returns the ids created and not killed since
ListIsCreatedMinusKilled ==
    /\ Range(MapKeys(sessions)) = LiveIds
    /\ (last.kind = "result" /\ last.name = "list_terminals")
           => Range(last.text) = LiveIds

\* only create_terminal and kill_terminal change the registry
OnlyCreateAndKillChangeRegistry ==
    (last'.kind # "result" \/ last'.name \notin {"create_terminal", "kill_terminal"})
        => sessions' = sessions

\* C14: the ids list_terminals returns are those returned by successful
\* create_terminal calls minus those a successful kill_terminal has removed
\* since; every other tool and every output or exit event leaves them alone.
C14_RegistryIsCreatedMinusKilled ==
    []ListIsCreatedMinusKilled /\ [][OnlyCreateAndKillChangeRegistry]_vars

\* C14 witness: list_terminals returned one id while another session had
\* been killed and a process had exited.
C14_Witness ==
    /\ last.name = "list_terminals"
    /\ Len(last.text) = 1
    /\ KilledIds # {}
    /\ \E p \in 1..Len(ptys) : ~ptys[p].alive /\ ~ptys[p].killed

\* the session tools and the listeners
SessionTools == {"create_terminal", "run_command", "read_output", "kill_terminal",
                 "list_terminals"}

\* every session tool and every listener can run now (a step that spawns,
\* emits or writes only while the run's count of inputs allows one more)
Serviceable ==
    /\ ENABLED ListTerminals
    /\ \A id \in Ids :
           /\ ENABLED ReadOutput(id)
           /\ ENABLED KillTerminal(id)
           /\ ENABLED RunCommand(id, Undefined)
           /\ Inputs < MaxInputs =>
                  /\ ENABLED RunCommand(id, Str(<<"ls">>))
                  /\ ENABLED CreateTerminal(<<>>, <<>>, <<>>, id, TRUE)
           /\ ENABLED CreateTerminal(<<>>, <<>>, <<>>, id, FALSE)
    /\ \A p \in 1..Len(ptys) :
           ptys[p].alive => /\ ENABLED OnExit(p)
                            /\ Inputs < MaxInputs => ENABLED OnData(p)

\* a step of a session tool or a listener
SessionStep ==
    \/ last'.kind = "result" /\ last'.name \in SessionTools
    \/ last'.kind = "event" /\ last'.name \in {"onData", "onExit"}

\* a session step taken while invocations are suspended settles none of them
\* and does to the registry, the processes and the buffers what the same step
\* does when none is suspended
SameEffectWhilePending ==
    (pending # <<>> /\ SessionStep) =>
        /\ pending' = pending
        /\ last'.name = "list_terminals"
               => last'.text = MapKeys(sessions) /\ sessions' = sessions /\ heap' = heap
        /\ \A id \in Ids :
               /\ (Returned({"create_terminal"}, id) /\ ~last'.isError)
                      => /\ sessions' = MapSet(sessions, id, Len(heap) + 1)
                         /\ Len(ptys') = Len(ptys) + 1
                         /\ heap'[Len(heap')].outputBuffer = <<>>
               /\ (Returned({"read_output"}, id) /\ ~last'.isError)
                      => /\ last'.text = heap[MapGet(sessions, id)].outputBuffer
                         /\ heap'[MapGet(sessions, id)].outputBuffer = <<>>
                         /\ sessions' = sessions
               /\ (Returned({"kill_terminal"}, id) /\ ~last'.isError)
                      => /\ sessions' = MapDelete(sessions, id)
                         /\ heap' = heap
               /\ (Returned({"run_command"}, id) /\ ~last'.isError)
                      => /\ sessions' = sessions
                         /\ heap' = heap
                         /\ Len(ptys'[heap[MapGet(sessions, id)].process].input)
                              = Len(ptys[heap[MapGet(sessions, id)].process].input) + 1
               /\ Returned({"read_output", "kill_terminal"}, id)
                      => last'.isError = ~MapHas(sessions, id)
               /\ (Returned({"run_command"}, id) /\ ~MapHas(sessions, id))
                      => last'.isError
        /\ last'.kind = "event"
               => /\ sessions' = sessions
                  /\ \E s \in 1..Len(heap) :
                         /\ Len(heap'[s].outputBuffer) = Len(heap[s].outputBuffer) + 1
                         /\ \A r \in 1..Len(heap) \ {s} : heap'[r] = heap[r]

\* C15: while a run_root_command, read_special_file or get_system_logs
\* invocation is pending, the session tools and the output and exit events
\* are still processed, complete without waiting for it, and have the effect
\* on the registry and the buffers that they have when nothing is pending.
C15_PendingBlocksNothing ==
    [](pending # <<>> => Serviceable) /\ [][SameEffectWhilePending]_vars

\* C15 witness: with an invocation suspended, a read_output returned text that
\* the process emitted.
C15_Witness ==
    /\ pending # <<>>
    /\ last.name = "read_output"
    /\ ~last.isError
    /\ last.text # <<>>

\* this step is a create_terminal that returned the id `id`
Created(id) == Returned({"create_terminal"}, id) /\ ~last'.isError

\* the mode a create_terminal result reports
Mode(text) == text[Len(text)]

\* what create_terminal does whether or not it was given a root password:
\* one new process, one new Session with an empty buffer registered under the
\* returned id, its listeners attached to that process, nothing else touched
CommonCreateEffect(id) ==
    LET s == Len(heap) + 1
        p == Len(ptys) + 1
    IN  /\ Len(heap') = s
        /\ Len(ptys') = p
        /\ heap'[s] = [id |-> id, process |-> p, outputBuffer |-> <<>>]
        /\ \A r \in 1..Len(heap) : heap'[r] = heap[r]
        /\ \A q \in 1..Len(ptys) : ptys'[q] = ptys[q]
        /\ sessions' = MapSet(sessions, id, s)
        /\ ptys'[p].listener = s
        /\ ptys'[p].alive
        /\ ~ptys'[p].killed
        /\ ptys'[p].cwd = HomeDir
        /\ pending' = pending

\* where the two kinds of create_terminal differ: the launch arguments, the
\* one password write, and the mode returned
ModeDifference ==
    LET new == ptys'[Len(ptys')] IN
        \/ /\ Mode(last'.text) = "root"
           /\ new.file = <<"sudo">>
           /\ new.args = <<"-S", "-p", "", DefaultShell>>
           /\ \E line \in PasswordLines : new.input = <<line>>
        \/ /\ Mode(last'.text) = "user"
           /\ new.file = DefaultShell
           /\ new.args = <<>>
           /\ new.input = <<>>

\* C16: create_terminal with and without a root password have the same
\* effect on the registry and the buffers and attach the same listeners; they
\* differ in the launch arguments, the initial password write and the mode
\* returned, which is root exactly when a password was supplied.
C16_RootCreateIsCreate ==
    [][\A id \in Ids : Created(id) => CommonCreateEffect(id) /\ ModeDifference]_vars

\* C16 witness: a create_terminal has returned with a root session and a
\* user session registered, the user one without any write to its input.
C16_Witness ==
    \E s, t \in Registered :
        /\ ptys[heap[s].process].file = <<"sudo">>
        /\ ptys[heap[t].process].file = DefaultShell
        /\ ptys[heap[t].process].input = <<>>
        /\ last.name = "create_terminal"
        /\ ~last.isError

\* the commands run_command may be given, as strings
CommandStrings == {c.val : c \in {a \in CommandArgs : a.type = "string"}}

\* what the claim says run_command writes for the command c
Terminated(c) == IF EndsWith(c, <<"\n">>) THEN c ELSE c \o <<"\n">>

\* C17: a run_command that is given a command on a registered id writes one
\* string to the input of that session's process, the command itself when it
\* ends with a line terminator and the command plus one terminator otherwise,
\* returns the acknowledgement at once and changes neither the registry nor
\* any buffer.
C17_RunCommandWritesOneLine ==
    [][\A id \in Ids :
          (Returned({"run_command"}, id) /\ ~last'.isError)
              => /\ MapHas(sessions, id)
                 /\ LET p == heap[MapGet(sessions, id)].process IN
                        /\ \E c \in CommandStrings :
                               ptys'[p].input = Append(ptys[p].input, Terminated(c))
                        /\ \A i \in 1..Len(ptys'[p].input) :
                               /\ EndsWith(ptys'[p].input[i], <<"\n">>)
                               /\ ~EndsWith(ptys'[p].input[i], <<"\n", "\n">>)
                        /\ \A q \in 1..Len(ptys) \ {p} : ptys'[q] = ptys[q]
                 /\ last' = Result("run_command", <<id>>,
                                   <<"Command sent to session ", id, ".">>, FALSE)
                 /\ sessions' = sessions
                 /\ heap' = heap
                 /\ pending' = pending]_vars

\* C17 witness: a run_command has written to a process that had already put
\* output in its session's buffer, and the buffer is as it was.
C17_Witness ==
    \E id \in Ids :
        /\ last = Result("run_command", <<id>>,
                         <<"Command sent to session ", id, ".">>, FALSE)
        /\ MapHas(sessions, id)
        /\ heap[MapGet(sessions, id)].outputBuffer # <<>>
        /\ Len(ptys[heap[MapGet(sessions, id)].process].input) = 1

\* the number of exit markers in the text s
Markers(s) == Cardinality({i \in 1..Len(s) : s[i] = ExitMarker[1]})

\* this step hands data or the exit to the listeners of process p
Emits(p) == emitted'[p] # emitted[p]

\* a listener event of a process on which kill_terminal was called reaches the
\* buffer of no session in the registry
LateOutputReachesNoSession ==
    emitted' # emitted =>
        \A p \in 1..Len(ptys) :
            (ptys[p].killed /\ Emits(p))
                => \A s \in Registered : heap'[s].outputBuffer = heap[s].outputBuffer

\* a successful read_output returns only what the process of the session it
\* read has emitted, with the exit marker at most once over all its reads and
\* only once that process has exited
ReadReturnsOwnOutput ==
    \A id \in Ids :
        (Returned({"read_output"}, id) /\ ~last'.isError)
            => /\ MapHas(sessions, id)
               /\ LET s == MapGet(sessions, id)
                      p == heap[s].process
                  IN  /\ \A i \in 1..Len(last'.text) : Names(emitted[p], last'.text[i])
                      /\ \A q \in 1..Len(ptys) \ {p} :
                             \A i \in 1..Len(last'.text) :
                                 last'.text[i] # ExitMarker[1]
                                     => ~Names(emitted[q], last'.text[i])
                      /\ Markers(drained'[s]) <= 1
                      /\ Markers(last'.text) = 1 => ~ptys[p].alive

\* C18: what a process emits after kill_terminal removed its session (output
\* or the exit marker) is returned by no later read_output, not even one on a
\* session created afterwards under the same id: a read_output returns only
\* text emitted by the process of the session it reads, and that process's
\* own exit marker.
C18_KilledOutputNeverReturned ==
    [][LateOutputReachesNoSession /\ ReadReturnsOwnOutput]_vars

\* C18 witness: a read_output of a session has returned nothing while the
\* session that had the same id before, removed by kill_terminal, holds
\* output of its process that no read_output returned.
C18_Witness ==
    \E id \in Ids :
        /\ last = Result("read_output", <<id>>, <<>>, FALSE)
        /\ MapHas(sessions, id)
        /\ \E r \in 1..Len(heap) \ Registered :
               /\ heap[r].id = id
               /\ ptys[heap[r].process].killed
               /\ heap[r].outputBuffer # <<>>
               /\ drained[r] = <<>>

\* the processes owned by a session in the registry
OwnedProcesses == {heap[s].process : s \in Registered}

\* C19: every process create_terminal spawned that is still alive and on
\* which kill_terminal has not been called is owned by a session in the
\* registry, whatever the outcome of the create_terminal calls so far.
C19_LiveProcessReachable ==
    \A p \in 1..Len(ptys) :
        (ptys[p].alive /\ ~ptys[p].killed) => p \in OwnedProcesses

====
